---------------------------- MODULE Spec2Model ----------------------------
(***************************************************************************)
(* Model of backend/coincidence_algorithm.cpp: the three OpenMP            *)
(* "parallel for ... schedule(static) ordered" stages find_coincidences,   *)
(* find_unique_pairs and build_all_supercells, which append to one shared  *)
(* std::vector inside "#pragma omp ordered", and the sequential            *)
(* filter_supercells.                                                      *)
(*                                                                         *)
(* The ordered construct is modelled by the two protocols with which the   *)
(* common OpenMP runtimes implement it for a static schedule:              *)
(*   "gomp": one ownership token per team; a thread waits for the token at *)
(*           the entry of an ordered region, keeps it until the end of its *)
(*           chunk and then hands it to the next thread;                   *)
(*   "kmp":  one shared counter of finished iterations; a thread enters an *)
(*           ordered region when the counter has reached the first         *)
(*           iteration of its chunk, the exit of the region increments the *)
(*           counter, and the end of an iteration that executed no ordered *)
(*           region waits the same way and increments it.                  *)
(* Both give the sequential order when every iteration executes at most    *)
(* one ordered region, which is what OpenMP requires of the program.  An   *)
(* iteration that executes several ordered regions is outside that rule;   *)
(* its behaviour is whatever the runtime of the build does, so the runtime *)
(* is chosen nondeterministically in the initial state.                    *)
(*                                                                         *)
(* Lattice arithmetic is exact: bases are integer 2x2 matrices, theta is a *)
(* number of quarter turns, and "norm < tolerance" is compared on squares. *)
(***************************************************************************)
EXTENDS Integers, Sequences, FiniteSets, TLC

VARIABLES fn, rt, nthreads, args, outer, result, again,
          pc, it, jj, row, pn,
          ordered_owner, ordered_iteration, ordered_bumped, returned

vars == <<fn, rt, nthreads, args, outer, result, again, pc, it, jj, row, pn,
          ordered_owner, ordered_iteration, ordered_bumped, returned>>

(* ------------------------------ bounds --------------------------------- *)
MaxN == 1

MaxThreads == 3

MaxCoin == 3

MaxPairs == 2

MaxStacks == 3

(* ------------------------------ helpers -------------------------------- *)
Min(S) == CHOOSE x \in S : \A y \in S : x <= y

Abs(x) == IF x < 0 THEN -x ELSE x

Range(s) == {s[x] : x \in DOMAIN s}

SeqsUpTo(S, n) == UNION {[1..m -> S] : m \in 0..n}

Count(s, x) == Cardinality({p \in DOMAIN s : s[p] = x})

Threads == 0..(nthreads - 1)

Runtimes == {"gomp", "kmp"}

(* --------------------- geometry (math_functions.h) --------------------- *)
Identity == <<<<1, 0>>, <<0, 1>>>>

basis_2x2_dot_2d_vector(M, vec) ==
    <<vec[1] * M[1][1] + vec[2] * M[2][1], vec[1] * M[1][2] + vec[2] * M[2][2]>>

rotate_2d_vector(vec, th) ==
    CASE th = 0 -> vec
      [] th = 1 -> <<-vec[2], vec[1]>>
      [] th = 2 -> <<-vec[1], -vec[2]>>
      [] OTHER  -> <<vec[2], -vec[1]>>

get_distance2(a, b) == (a[1] - b[1]) * (a[1] - b[1]) + (a[2] - b[2]) * (a[2] - b[2])

NormLess(d2, tol) == tol > 0 /\ d2 < tol * tol

(* -------------------------- find_coincidences -------------------------- *)
Width == args.Nmax - args.Nmin + 1

Quad(k) ==
    LET w == Width
    IN  <<args.Nmin + (k \div (w * w * w)),
          args.Nmin + ((k \div (w * w)) % w),
          args.Nmin + ((k \div w) % w),
          args.Nmin + (k % w)>>

Norm2(q) ==
    LET Am  == basis_2x2_dot_2d_vector(args.A, <<q[1], q[2]>>)
        Bn  == basis_2x2_dot_2d_vector(args.B, <<q[3], q[4]>>)
        RBn == rotate_2d_vector(Bn, args.theta)
    IN  get_distance2(Am, RBn)

AcceptFC_noAllEqual(q) == NormLess(Norm2(q), args.tolerance)

AcceptFC(q) ==
    LET match     == NormLess(Norm2(q), args.tolerance)
        all_equal == (q[1] = q[2]) /\ (q[2] = q[3]) /\ (q[3] = q[4])
    IN  match /\ ~all_equal

(* -------------------------- find_unique_pairs -------------------------- *)
RECURSIVE get_gcd(_, _)
get_gcd(a, b) == IF a = 0 THEN b ELSE get_gcd(b % a, a)

RECURSIVE find_gcd(_, _)
find_gcd(arr, n) ==
    IF n = 1 THEN Abs(arr[1]) ELSE get_gcd(Abs(arr[n]), find_gcd(arr, n - 1))

PairRow(p, q) == <<p[1], p[2], q[1], q[2], p[3], p[4], q[3], q[4]>>

AcceptUP(subvec) ==
    LET detM == subvec[1] * subvec[4] - subvec[2] * subvec[3]
        detN == subvec[5] * subvec[8] - subvec[6] * subvec[7]
    IN  (detM > 0) /\ (detN > 0) /\ Abs(find_gcd(subvec, 8)) = 1

(* The list the two nested loops produce when one thread runs them. *)
RECURSIVE UniquePairsFrom(_, _, _)
UniquePairsFrom(c, i, j) ==
    IF i > Len(c) THEN <<>>
    ELSE IF j > Len(c) THEN UniquePairsFrom(c, i + 1, i + 2)
    ELSE (IF AcceptUP(PairRow(c[i], c[j])) THEN <<PairRow(c[i], c[j])>> ELSE <<>>)
         \o UniquePairsFrom(c, i, j + 1)

SerialUniquePairs(c) == UniquePairsFrom(c, 1, 2)

(* ------------------------- build_all_supercells ------------------------ *)
(* AnglesMN maps an angle to its list of pairs; a pair is represented by   *)
(* the space-group number that standardize() returns for its stack.        *)
Theta == Min(outer)

Pairs == IF outer = {} THEN <<>> ELSE args.AnglesMN[Theta]

standardize(j) == Pairs[j + 1]

Stack(th, j, spacegroup) == [theta |-> th, pair |-> j, spaceGroup |-> spacegroup]

AcceptBS_any(spacegroup) == spacegroup >= 0

AcceptBS(spacegroup) == spacegroup # 0

(* --------------------------- filter_supercells ------------------------- *)
(* Interface::operator< (atom_class.h): order on the equivalence key.      *)
InterfaceLess(a, b) ==
    \/ a.spaceGroup < b.spaceGroup
    \/ a.spaceGroup = b.spaceGroup /\ a.area < b.area
    \/ a.spaceGroup = b.spaceGroup /\ a.area = b.area /\ a.numAtom < b.numAtom

Equivalent(a, b) == ~InterfaceLess(a, b) /\ ~InterfaceLess(b, a)

(* std::set<Interface>::insert on the set kept as its sorted sequence.     *)
SetInsert_replace(s, x) ==
    LET below == SelectSeq(s, LAMBDA y : InterfaceLess(y, x))
        above == SelectSeq(s, LAMBDA y : InterfaceLess(x, y))
    IN  below \o <<x>> \o above

SetInsert_multi(s, x) ==
    LET below == SelectSeq(s, LAMBDA y : ~InterfaceLess(x, y))
        above == SelectSeq(s, LAMBDA y : InterfaceLess(x, y))
    IN  below \o <<x>> \o above

SetInsert_front(s, x) ==
    IF \E p \in DOMAIN s : Equivalent(s[p], x) THEN s ELSE <<x>> \o s

SetInsert(s, x) ==
    IF \E p \in DOMAIN s : Equivalent(s[p], x) THEN s
    ELSE LET below == SelectSeq(s, LAMBDA y : InterfaceLess(y, x))
             above == SelectSeq(s, LAMBDA y : InterfaceLess(x, y))
         IN  below \o <<x>> \o above

RECURSIVE SetFromRange(_, _)
SetFromRange(v, n) == IF n = 0 THEN <<>> ELSE SetInsert(SetFromRange(v, n - 1), v[n])

filter_supercells(v) == SetFromRange(v, Len(v))

(* ------------------ schedule(static): one chunk per thread ------------- *)
TripCount ==
    CASE fn = "find_coincidences"    -> Width * Width * Width * Width
      [] fn = "find_unique_pairs"    -> Len(args.coincidences)
      [] fn = "build_all_supercells" -> Len(Pairs)
      [] OTHER                       -> 0

ChunkSize(t, n, T) == (n \div T) + (IF t < n % T THEN 1 ELSE 0)

ChunkLower(t, n, T) == t * (n \div T) + (IF t < n % T THEN t ELSE n % T)

Lower(t) == ChunkLower(t, TripCount, nthreads)

Upper(t) == Lower(t) + ChunkSize(t, TripCount, nthreads) - 1

(* Entry of the parallel loop over n iterations with T threads. *)
LoopPc(n, T) == [t \in 0..(T - 1) |-> IF ChunkSize(t, n, T) = 0 THEN "done" ELSE "body"]

LoopIt(n, T) == [t \in 0..(T - 1) |-> ChunkLower(t, n, T)]

LoopJj(n, T) == [t \in 0..(T - 1) |-> ChunkLower(t, n, T) + 1]

Zero(T) == [t \in 0..(T - 1) |-> 0]

NoRow(T) == [t \in 0..(T - 1) |-> <<>>]

(* ------------------------- #pragma omp ordered ------------------------- *)
MayEnterOrdered(t) ==
    IF rt = "gomp" THEN ordered_owner = t ELSE ordered_iteration >= Lower(t)

OrderedStart(t) ==
    /\ t \in Threads
    /\ pc[t] = "ordered"
    /\ MayEnterOrdered(t)
    /\ pc' = [pc EXCEPT ![t] = "push"]
    /\ pn' = [pn EXCEPT ![t] = Len(result)]
    /\ UNCHANGED <<fn, rt, nthreads, args, outer, result, again, it, jj, row,
                   ordered_owner, ordered_iteration, ordered_bumped, returned>>

(* push_back reads the end of the vector (OrderedStart), then writes the   *)
(* element and the new end.  Two threads inside it at once is a data race: *)
(* both elements are stored, or one overwrites the other, or the process   *)
(* aborts on the corrupted heap, which stops every thread.                 *)
Racing(t) == (\E u \in Threads \ {t} : pc[u] = "push") \/ Len(result) # pn[t]

PushOutcomes(t) == IF Racing(t) THEN {"stored", "lost", "abort"} ELSE {"stored"}

push_back(t) ==
    /\ t \in Threads
    /\ pc[t] = "push"
    /\ \E o \in PushOutcomes(t) :
         /\ result' = CASE o = "stored" -> Append(result, row[t])
                        [] o = "lost"   ->
                             Append(SubSeq(result, 1, Min({pn[t], Len(result)})), row[t])
                        [] OTHER        -> result
         /\ pc' = IF o = "abort" THEN [u \in Threads |-> "aborted"]
                  ELSE [pc EXCEPT ![t] = "end_ordered"]
    /\ UNCHANGED <<fn, rt, nthreads, args, outer, again, it, jj, row, pn,
                   ordered_owner, ordered_iteration, ordered_bumped, returned>>

OrderedEnd(t) ==
    /\ t \in Threads
    /\ pc[t] = "end_ordered"
    /\ IF rt = "kmp"
       THEN /\ ordered_bumped' = [ordered_bumped EXCEPT ![t] = @ + 1]
            /\ ordered_iteration' = ordered_iteration + 1
       ELSE UNCHANGED <<ordered_bumped, ordered_iteration>>
    /\ IF fn = "find_unique_pairs"
       THEN pc' = [pc EXCEPT ![t] = "body"] /\ jj' = [jj EXCEPT ![t] = @ + 1]
       ELSE pc' = [pc EXCEPT ![t] = "fini"] /\ jj' = jj
    /\ UNCHANGED <<fn, rt, nthreads, args, outer, result, again, it, row, pn,
                   ordered_owner, returned>>

(* End of an iteration of the worksharing loop. *)
MayFinish(t) ==
    IF rt = "gomp" THEN it[t] < Upper(t) \/ ordered_owner = t
    ELSE ordered_bumped[t] > 0 \/ ordered_iteration >= Lower(t)

IterationEnd(t) ==
    /\ t \in Threads
    /\ pc[t] = "fini"
    /\ MayFinish(t)
    /\ IF rt = "gomp"
       THEN /\ ordered_owner' = IF it[t] < Upper(t) THEN ordered_owner
                                ELSE (t + 1) % nthreads
            /\ UNCHANGED <<ordered_bumped, ordered_iteration>>
       ELSE /\ ordered_iteration' = IF ordered_bumped[t] > 0 THEN ordered_iteration
                                    ELSE ordered_iteration + 1
            /\ ordered_bumped' = [ordered_bumped EXCEPT ![t] = 0]
            /\ UNCHANGED ordered_owner
    /\ IF it[t] < Upper(t)
       THEN /\ it' = [it EXCEPT ![t] = @ + 1]
            /\ jj' = [jj EXCEPT ![t] = it[t] + 2]
            /\ pc' = [pc EXCEPT ![t] = "body"]
       ELSE /\ pc' = [pc EXCEPT ![t] = "done"]
            /\ UNCHANGED <<it, jj>>
    /\ UNCHANGED <<fn, rt, nthreads, args, outer, result, again, row, pn, returned>>

AllDone == \A t \in Threads : pc[t] = "done"

(* ----------------------------- loop bodies ----------------------------- *)
(* Lines 52-68.  Between two ordered regions the "gomp" protocol touches   *)
(* no shared state, so a run of rejected candidates is one step there.     *)
FC_Body(t) ==
    /\ fn = "find_coincidences"
    /\ t \in Threads
    /\ pc[t] = "body"
    /\ LET last == IF rt = "gomp" THEN Upper(t) ELSE it[t]
           hits == {k \in it[t]..last : AcceptFC(Quad(k))}
       IN  IF hits # {}
           THEN /\ it' = [it EXCEPT ![t] = Min(hits)]
                /\ row' = [row EXCEPT ![t] = Quad(Min(hits))]
                /\ pc' = [pc EXCEPT ![t] = "ordered"]
           ELSE /\ it' = [it EXCEPT ![t] = last]
                /\ pc' = [pc EXCEPT ![t] = "fini"]
                /\ row' = row
    /\ UNCHANGED <<fn, rt, nthreads, args, outer, result, again, jj, pn,
                   ordered_owner, ordered_iteration, ordered_bumped, returned>>

(* Lines 101-121: one pass of the inner loop over j. *)
UP_Body(t) ==
    /\ fn = "find_unique_pairs"
    /\ t \in Threads
    /\ pc[t] = "body"
    /\ IF jj[t] >= Len(args.coincidences)
       THEN pc' = [pc EXCEPT ![t] = "fini"] /\ UNCHANGED <<jj, row>>
       ELSE LET subvec == PairRow(args.coincidences[it[t] + 1], args.coincidences[jj[t] + 1])
            IN  IF AcceptUP(subvec)
                THEN /\ row' = [row EXCEPT ![t] = subvec]
                     /\ pc' = [pc EXCEPT ![t] = "ordered"]
                     /\ jj' = jj
                ELSE /\ jj' = [jj EXCEPT ![t] = @ + 1]
                     /\ UNCHANGED <<pc, row>>
    /\ UNCHANGED <<fn, rt, nthreads, args, outer, result, again, it, pn,
                   ordered_owner, ordered_iteration, ordered_bumped, returned>>

(* Lines 159-169. *)
BS_Body(t) ==
    /\ fn = "build_all_supercells"
    /\ t \in Threads
    /\ pc[t] = "body"
    /\ LET spacegroup == standardize(it[t])
       IN  IF AcceptBS(spacegroup)
           THEN /\ row' = [row EXCEPT ![t] = Stack(Theta, it[t], spacegroup)]
                /\ pc' = [pc EXCEPT ![t] = "ordered"]
           ELSE /\ pc' = [pc EXCEPT ![t] = "fini"]
                /\ row' = row
    /\ UNCHANGED <<fn, rt, nthreads, args, outer, result, again, it, jj, pn,
                   ordered_owner, ordered_iteration, ordered_bumped, returned>>

(* End of the parallel region (implicit barrier) and return. *)
Return ==
    /\ fn \in {"find_coincidences", "find_unique_pairs"}
    /\ AllDone
    /\ ~returned
    /\ returned' = TRUE
    /\ UNCHANGED <<fn, rt, nthreads, args, outer, result, again, pc, it, jj, row, pn,
                   ordered_owner, ordered_iteration, ordered_bumped>>

(* End of the parallel region of one angle; the outer loop goes on. *)
BS_NextAngle ==
    /\ fn = "build_all_supercells"
    /\ AllDone
    /\ ~returned
    /\ outer # {}
    /\ outer # {Theta}
    /\ LET rest == outer \ {Theta}
           n    == Len(args.AnglesMN[Min(rest)])
       IN  /\ outer' = rest
           /\ pc' = LoopPc(n, nthreads)
           /\ it' = LoopIt(n, nthreads)
           /\ jj' = LoopJj(n, nthreads)
    /\ ordered_owner' = 0
    /\ ordered_iteration' = 0
    /\ ordered_bumped' = Zero(nthreads)
    /\ UNCHANGED <<fn, rt, nthreads, args, result, again, row, pn, returned>>

BS_Return ==
    /\ fn = "build_all_supercells"
    /\ AllDone
    /\ ~returned
    /\ IF outer = {} THEN TRUE ELSE outer = {Theta}
    /\ outer' = {}
    /\ returned' = TRUE
    /\ UNCHANGED <<fn, rt, nthreads, args, result, again, pc, it, jj, row, pn,
                   ordered_owner, ordered_iteration, ordered_bumped>>

(* filter_supercells(stacks), and a caller that filters the result again. *)
Filter ==
    /\ fn = "filter_supercells"
    /\ ~returned
    /\ result' = filter_supercells(args.stacks)
    /\ returned' = TRUE
    /\ UNCHANGED <<fn, rt, nthreads, args, outer, again, pc, it, jj, row, pn,
                   ordered_owner, ordered_iteration, ordered_bumped>>

FilterAgain ==
    /\ fn = "filter_supercells"
    /\ returned
    /\ ~again.done
    /\ again' = [done |-> TRUE, value |-> filter_supercells(result)]
    /\ UNCHANGED <<fn, rt, nthreads, args, outer, result, pc, it, jj, row, pn,
                   ordered_owner, ordered_iteration, ordered_bumped, returned>>

(* ------------------------------- inputs -------------------------------- *)
Lattices == {Identity, <<<<2, 0>>, <<0, 2>>>>}

QuarterTurns == {0, 1}

Tolerances == {0, 1, 2}

ScenarioA ==
    [A |-> Identity, B |-> Identity, theta |-> 0, Nmin |-> -2, Nmax |-> 2, tolerance |-> 1]

FCInputs ==
    {a \in [A : Lattices, B : Lattices, theta : QuarterTurns,
            Nmin : (-MaxN)..MaxN, Nmax : (-MaxN)..MaxN, tolerance : Tolerances] :
        a.Nmin <= a.Nmax}
    \cup {ScenarioA}

Quadruples ==
    {<<1, 0, 1, 0>>, <<0, 1, 0, 1>>, <<-1, 1, -1, 1>>, <<2, 0, 2, 0>>, <<0, 2, 0, 2>>,
     <<0, 1, 0, -1>>}

UPInputs == {[coincidences |-> c] : c \in SeqsUpTo(Quadruples, MaxCoin)}

Angles == {1, 2}

SpaceGroups == {0, 1}

BSInputs ==
    {[AnglesMN |-> m] :
        m \in UNION {[S -> SeqsUpTo(SpaceGroups, MaxPairs)] : S \in SUBSET Angles}}

InterfacePool ==
    {[spaceGroup |-> 1, area |-> 1, numAtom |-> 2, theta |-> 1],
     [spaceGroup |-> 1, area |-> 1, numAtom |-> 2, theta |-> 2],
     [spaceGroup |-> 1, area |-> 2, numAtom |-> 2, theta |-> 1],
     [spaceGroup |-> 1, area |-> 1, numAtom |-> 4, theta |-> 1],
     [spaceGroup |-> 2, area |-> 1, numAtom |-> 2, theta |-> 1],
     [spaceGroup |-> 2, area |-> 1, numAtom |-> 2, theta |-> 2]}

FilterInputs == {[stacks |-> v] : v \in SeqsUpTo(InterfacePool, MaxStacks)}

(* --------------------------- specifications ---------------------------- *)
Start(f, a, T, r, o) ==
    /\ fn = f
    /\ args = a
    /\ nthreads = T
    /\ rt = r
    /\ outer = o
    /\ result = <<>>
    /\ again = [done |-> FALSE, value |-> <<>>]
    /\ pc = LoopPc(TripCount, T)
    /\ it = LoopIt(TripCount, T)
    /\ jj = LoopJj(TripCount, T)
    /\ row = NoRow(T)
    /\ pn = Zero(T)
    /\ ordered_owner = 0
    /\ ordered_iteration = 0
    /\ ordered_bumped = Zero(T)
    /\ returned = FALSE

InitFC ==
    \E a \in FCInputs, T \in 1..MaxThreads, r \in Runtimes :
        Start("find_coincidences", a, T, r, {})

InitUP ==
    \E a \in UPInputs, T \in 1..MaxThreads, r \in Runtimes :
        Start("find_unique_pairs", a, T, r, {})

InitUP1 ==
    \E a \in UPInputs, r \in Runtimes : Start("find_unique_pairs", a, 1, r, {})

InitBS ==
    \E a \in BSInputs, T \in 1..MaxThreads, r \in Runtimes :
        Start("build_all_supercells", a, T, r, DOMAIN a.AnglesMN)

InitFilter == \E a \in FilterInputs : Start("filter_supercells", a, 1, "gomp", {})

TeamIds == 0..(MaxThreads - 1)

FC_Step(t) == FC_Body(t) \/ OrderedStart(t) \/ push_back(t) \/ OrderedEnd(t) \/ IterationEnd(t)

UP_Step(t) == UP_Body(t) \/ OrderedStart(t) \/ push_back(t) \/ OrderedEnd(t) \/ IterationEnd(t)

BS_Step(t) == BS_Body(t) \/ OrderedStart(t) \/ push_back(t) \/ OrderedEnd(t) \/ IterationEnd(t)

NextFC ==
    \/ \E t \in TeamIds : FC_Body(t)
    \/ \E t \in TeamIds : OrderedStart(t)
    \/ \E t \in TeamIds : push_back(t)
    \/ \E t \in TeamIds : OrderedEnd(t)
    \/ \E t \in TeamIds : IterationEnd(t)
    \/ Return

NextUP ==
    \/ \E t \in TeamIds : UP_Body(t)
    \/ \E t \in TeamIds : OrderedStart(t)
    \/ \E t \in TeamIds : push_back(t)
    \/ \E t \in TeamIds : OrderedEnd(t)
    \/ \E t \in TeamIds : IterationEnd(t)
    \/ Return

NextBS ==
    \/ \E t \in TeamIds : BS_Body(t)
    \/ \E t \in TeamIds : OrderedStart(t)
    \/ \E t \in TeamIds : push_back(t)
    \/ \E t \in TeamIds : OrderedEnd(t)
    \/ \E t \in TeamIds : IterationEnd(t)
    \/ BS_NextAngle
    \/ BS_Return

NextFilter == Filter \/ FilterAgain

SpecFC == InitFC /\ [][NextFC]_vars

SpecUP == InitUP /\ [][NextUP]_vars

SpecUP1 == InitUP1 /\ [][NextUP]_vars

SpecBS == InitBS /\ [][NextBS]_vars

SpecFilter == InitFilter /\ [][NextFilter]_vars

(* Every thread that can take a step eventually takes one. *)
FairSpecUP ==
    SpecUP /\ (\A t \in TeamIds : WF_vars(UP_Step(t))) /\ WF_vars(Return)

FairSpecBS ==
    SpecBS /\ (\A t \in TeamIds : WF_vars(BS_Step(t)))
           /\ WF_vars(BS_NextAngle) /\ WF_vars(BS_Return)

(* ============================== claims ================================= *)
AllEqual(q) == q[1] = q[2] /\ q[2] = q[3] /\ q[3] = q[4]

Window == args.Nmin..args.Nmax

WindowQuads == {<<i, j, k, l>> : i \in Window, j \in Window, k \in Window, l \in Window}

Coincides(q) == NormLess(Norm2(q), args.tolerance)

(* C1: find_coincidences returns exactly the quadruples of the window whose *)
(* distance is strictly below the tolerance and whose indices are not all   *)
(* equal, each exactly once; for A = B = identity, theta = 0, window [-2,2] *)
(* these are the quadruples with i = k, j = l; for Nmin = Nmax none.        *)
C1_CoincidencesExact ==
    (fn = "find_coincidences" /\ returned) =>
        /\ Range(result) \subseteq WindowQuads
        /\ \A q \in WindowQuads :
              Count(result, q) = IF Coincides(q) /\ ~AllEqual(q) THEN 1 ELSE 0
        /\ (args = ScenarioA =>
              Range(result) = {q \in WindowQuads : q[1] = q[3] /\ q[2] = q[4] /\ ~AllEqual(q)})
        /\ (args.Nmin = args.Nmax => result = <<>>)

C1_Witness ==
    /\ fn = "find_coincidences"
    /\ returned
    /\ args = ScenarioA
    /\ nthreads = 2
    /\ rt = "kmp"
    /\ Len(result) = 20

(* C3: build_all_supercells emits exactly one Interface for every (theta,   *)
(* pair) whose standardization returns a non-zero space group and none for  *)
(* a pair that returns 0, never fails, and returns.                         *)
C3_Safety ==
    /\ \A t \in Threads : pc[t] # "aborted"
    /\ \A p \in DOMAIN result : result[p].spaceGroup # 0
    /\ returned =>
          /\ \A th \in DOMAIN args.AnglesMN : \A p \in DOMAIN args.AnglesMN[th] :
                LET sg == args.AnglesMN[th][p]
                IN  Count(result, Stack(th, p - 1, sg)) = IF sg # 0 THEN 1 ELSE 0
          /\ \A p \in DOMAIN result :
                /\ result[p].theta \in DOMAIN args.AnglesMN
                /\ result[p].pair + 1 \in DOMAIN args.AnglesMN[result[p].theta]
          /\ ((\A th \in DOMAIN args.AnglesMN : \A p \in DOMAIN args.AnglesMN[th] :
                  args.AnglesMN[th][p] = 0) => result = <<>>)

C3_OneInterfacePerNonZero == []C3_Safety /\ <>returned

C3_Witness ==
    /\ fn = "build_all_supercells"
    /\ returned
    /\ nthreads >= 2
    /\ DOMAIN args.AnglesMN = {1, 2}
    /\ args.AnglesMN[1] = <<0, 1>>
    /\ args.AnglesMN[2] = <<0, 0>>
    /\ result = <<Stack(1, 1, 1)>>

Key(x) == <<x.spaceGroup, x.area, x.numAtom>>

KeyLess(k1, k2) ==
    \/ k1[1] < k2[1]
    \/ k1[1] = k2[1] /\ k1[2] < k2[2]
    \/ k1[1] = k2[1] /\ k1[2] = k2[2] /\ k1[3] < k2[3]

(* C4: filter_supercells returns exactly one interface per distinct key of  *)
(* the input, every one an element of the input; the output is never longer *)
(* than the input and keeps every interface whose key is unique.            *)
C4_OnePerKey ==
    (fn = "filter_supercells" /\ returned) =>
        /\ \A p, q \in DOMAIN result : p # q => Key(result[p]) # Key(result[q])
        /\ Range(result) \subseteq Range(args.stacks)
        /\ Len(result) <= Len(args.stacks)
        /\ \A x \in Range(args.stacks) :
              Cardinality({p \in DOMAIN result : Key(result[p]) = Key(x)}) = 1
        /\ \A p \in DOMAIN args.stacks :
              (\A q \in DOMAIN args.stacks : q # p => Key(args.stacks[q]) # Key(args.stacks[p]))
                  => args.stacks[p] \in Range(result)

C4_Witness ==
    /\ fn = "filter_supercells"
    /\ returned
    /\ Len(args.stacks) = 3
    /\ Len(result) = 2

(* C5: filtering the filtered list again returns the same list. *)
C5_Idempotent == again.done => again.value = result

C5_Witness ==
    /\ again.done
    /\ Len(result) >= 2
    /\ Len(args.stacks) > Len(result)

(* C10: of several interfaces with the same key the first of the input list *)
(* is kept, and the output is in ascending key order.                       *)
C10_FirstKeptSorted ==
    (fn = "filter_supercells" /\ returned) =>
        /\ \A p \in DOMAIN result :
              result[p] = args.stacks[Min({q \in DOMAIN args.stacks :
                                              Key(args.stacks[q]) = Key(result[p])})]
        /\ \A p, q \in DOMAIN result : p < q => KeyLess(Key(result[p]), Key(result[q]))

C10_Witness ==
    /\ fn = "filter_supercells"
    /\ returned
    /\ Len(result) = 2
    /\ \E p, q \in DOMAIN args.stacks :
          /\ p < q
          /\ Key(args.stacks[p]) = Key(args.stacks[q])
          /\ args.stacks[p] # args.stacks[q]
          /\ args.stacks[p] \in Range(result)

Det(a, b, c, d) == a * d - b * c

RECURSIVE Gcd(_, _)
Gcd(a, b) == IF b = 0 THEN a ELSE Gcd(b, a % b)

Gcd8(r) ==
    Gcd(Gcd(Gcd(Abs(r[1]), Abs(r[2])), Gcd(Abs(r[3]), Abs(r[4]))),
        Gcd(Gcd(Abs(r[5]), Abs(r[6])), Gcd(Abs(r[7]), Abs(r[8]))))

Primitive(r) == Det(r[1], r[2], r[3], r[4]) > 0 /\ Det(r[5], r[6], r[7], r[8]) > 0 /\ Gcd8(r) = 1

IndexPairs(c) == {ij \in (DOMAIN c) \X (DOMAIN c) : ij[1] < ij[2]}

Doubled(r) == [x \in DOMAIN r |-> 2 * r[x]]

(* C2: find_unique_pairs returns, over the index pairs i < j of its input,  *)
(* exactly the rows with det(M) > 0, det(N) > 0 and |gcd| = 1, one row per  *)
(* qualifying index pair; no returned row is the double of a returned row.  *)
C2_UniquePairsExact ==
    (fn = "find_unique_pairs" /\ returned) =>
        LET c == args.coincidences
        IN  /\ \A r \in Range(result) : Primitive(r) /\ Doubled(r) \notin Range(result)
            /\ \A r \in Range(result) \cup {PairRow(c[ij[1]], c[ij[2]]) : ij \in IndexPairs(c)} :
                  Count(result, r) =
                      Cardinality({ij \in IndexPairs(c) :
                                      PairRow(c[ij[1]], c[ij[2]]) = r /\ Primitive(r)})

(* C6: at most one worker at a time executes the push_back on the shared    *)
(* result container, in each of the three parallel stages.                  *)
C6_OneWorkerInAppend == Cardinality({t \in Threads : pc[t] = "push"}) <= 1

(* C7: each parallel stage runs to completion: under fair scheduling every  *)
(* worker that waits for the ordered section enters it, every iteration     *)
(* finishes and the function returns.                                       *)
C7_RunsToCompletion ==
    /\ \A t \in TeamIds : (t \in Threads /\ pc[t] = "ordered") ~> (t \in Threads /\ pc[t] = "push")
    /\ <>returned

RECURSIVE Perms(_)
Perms(S) ==
    IF S = {} THEN {<<>>}
    ELSE UNION {{<<x>> \o p : p \in Perms(S \ {x})} : x \in S}

DuplicateFree(c) == \A p, q \in DOMAIN c : p # q => c[p] # c[q]

(* C8: for duplicate-free inputs that are permutations of each other,       *)
(* find_unique_pairs returns the same set of rows.                          *)
C8_OrderNotMeaningful ==
    (fn = "find_unique_pairs" /\ returned /\ DuplicateFree(args.coincidences)) =>
        \A y \in Perms(Range(args.coincidences)) :
            Range(SerialUniquePairs(y)) = Range(result)

(* C9: the list a parallel stage returns is the list a single thread        *)
(* produces: rows in ascending (i, j) index-pair order for                  *)
(* find_unique_pairs.                                                       *)
C9_SameAsSerial ==
    (fn = "find_unique_pairs" /\ returned) => result = SerialUniquePairs(args.coincidences)

=============================================================================
